---- MODULE Spec2Model ----
(***************************************************************************)
(* Model of the MTG pod system: the pod distribution of PodRandomizer      *)
(* (core/pod_randomizer.py) and its in-memory history, the roster of       *)
(* PlayerManager (core/player_manager.py), the data files, backups and     *)
(* import of DataStorage (core/data_storage.py), and the handlers of the   *)
(* terminal interface that drive them (interfaces/terminal_app.py).        *)
(***************************************************************************)
EXTENDS Integers, Sequences, FiniteSets, Bags, TLC

VARIABLES
    pc,             \* position of the modelled caller
    players,        \* create_pods argument: the participant list
    target_size,    \* create_pods argument
    max_size,       \* create_pods argument
    shuffled,       \* shuffled_players of the last create_pods call
    raised,         \* TRUE iff the last call ended in an exception
    path,           \* which branch produced the last result
    ret,            \* reference (heap address) returned by the last create_pods, 0 = none
    heap,           \* the pod-list objects: address -> sequence of Pod values
    history,        \* PodRandomizer.history: sequence of addresses of pod lists
    got,            \* the list object the caller got from get_history()
    stats,          \* the dict the last get_statistics call returned
    config,         \* TerminalInterface.config
    history_file,   \* content of history.json ("history" key)
    clock,          \* logical clock behind datetime.now(): number of stamps taken
    saved,          \* every entry save_to_history built so far, in call order
    roster,         \* PlayerManager.players
    players_file,   \* content of data/players.json (the JSON object)
    config_file,    \* content of data/config.json (the JSON object)
    on_disk,        \* the data files that exist
    backups         \* data/backups: folder name -> the files copied into it

\* the state of the roster, of the data files other than history.json, and of the
\* backup folders
app_vars == << roster, players_file, config_file, on_disk, backups >>

vars == << pc, players, target_size, max_size, shuffled, raised, path, ret,
           heap, history, got, stats, config, history_file, clock, saved,
           roster, players_file, config_file, on_disk, backups >>

----------------------------------------------------------------------------
(* Bounds of the model *)

\* longest participant list handed to a single create_pods call (SpecDist)
MaxPlayers == 6
\* largest max_size / target_size argument tried
MaxSize == 6

\* get_statistics inputs (SpecStats): pods per list, largest size field
MaxStatPods == 3
MaxStatSize == 4
\* create_pods calls on one PodRandomizer (Spec)
MaxCalls == 2
\* save_to_history calls, and largest max_history_items tried (SpecTerm)
MaxSaves == 4
MaxHistoryItems == 3
\* backup folders kept (SpecApp)
MaxBackups == 1
\* names entered in one add_multiple_players / import_players_from_list call
MaxTyped == 2

\* the literal 3 of max(3, ...) and of "remaining_players < 3"
MIN_POD == 3

----------------------------------------------------------------------------
(* Python arithmetic and list helpers *)

Min(a, b) == IF a <= b THEN a ELSE b
Max(a, b) == IF a >= b THEN a ELSE b

\* Python's a // b for b # 0 (floor division, also for a negative divisor)
PyFloorDiv(a, b) ==
    LET FloorPos(x, y) == IF x >= 0 THEN x \div y ELSE -((-x + y - 1) \div y)
    IN  IF b > 0 THEN FloorPos(a, b) ELSE FloorPos(-a, -b)

\* Python's a % b for b # 0 (sign of the divisor)
PyMod(a, b) == a - b * PyFloorDiv(a, b)

\* the slice with its end taken one short
SliceShort(s, lo, hi) ==
    LET l == IF lo <= Len(s) THEN lo ELSE Len(s)
        h == IF hi - 1 <= Len(s) THEN hi - 1 ELSE Len(s)
    IN  IF h <= l THEN << >> ELSE SubSeq(s, l + 1, h)

\* the slice starting one late
SliceLate(s, lo, hi) ==
    LET l == IF lo + 1 <= Len(s) THEN lo + 1 ELSE Len(s)
        h == IF hi <= Len(s) THEN hi ELSE Len(s)
    IN  IF h <= l THEN << >> ELSE SubSeq(s, l + 1, h)

\* the slice of the same length taken from the start of the list
SliceFromStart(s, lo, hi) ==
    LET h == IF hi - lo <= Len(s) THEN hi - lo ELSE Len(s)
    IN  IF h <= 0 THEN << >> ELSE SubSeq(s, 1, h)

\* Python's s[lo:hi] for 0 <= lo (0-based, end exclusive, clipped to len(s))
Slice(s, lo, hi) ==
    LET l == Min(lo, Len(s))
        h == Min(hi, Len(s))
    IN  IF h <= l THEN << >> ELSE SubSeq(s, l + 1, h)

\* the pod numbered from the loop index, without the + 1
PodZeroBased(id, pod_players, size) ==
    [id |-> id - 1, players |-> pod_players, size |-> size]

\* Pod(id=..., players=..., size=...)
Pod(id, pod_players, size) == [id |-> id, players |-> pod_players, size |-> size]

----------------------------------------------------------------------------
(* PodRandomizer._simple_distribution *)

\* the headroom check taken strictly
FitsInLastStrict(last_len, remaining_players, maxsz) ==
    last_len + remaining_players < maxsz

\* the headroom check left out
FitsInLastAlways(last_len, remaining_players, maxsz) == TRUE

\* line 108: the tail fits into the last pod
FitsInLast(last_len, remaining_players, maxsz) ==
    last_len + remaining_players <= maxsz

\* the merge that forgets to refresh the size
MergeTailStaleSize(pod, tail) == [pod EXCEPT !.players = @ \o tail]

\* lines 109-110: extend the last pod's players and refresh its size
MergeTail(pod, tail) ==
    LET merged == pod.players \o tail
    IN  [pod EXCEPT !.players = merged, !.size = Len(merged)]

RECURSIVE SimpleLoop(_, _, _, _, _, _)
SimpleLoop(ps, target, maxsz, i, pod_id, pods) ==
    IF i >= Len(ps) THEN pods
    ELSE
      LET remaining_players == Len(ps) - i
          small    == remaining_players < MIN_POD /\ pods # << >>
          merge    == small /\ FitsInLast(Len(pods[Len(pods)].players),
                                          remaining_players, maxsz)
          pod_size == IF small /\ ~merge /\ remaining_players > 0
                        THEN remaining_players
                        ELSE Min(target, remaining_players)
          pod_players == Slice(ps, i, i + pod_size)
      IN  IF merge
            THEN [pods EXCEPT ![Len(pods)] = MergeTail(@, Slice(ps, i, Len(ps)))]
            ELSE SimpleLoop(ps, target, maxsz, i + pod_size, pod_id + 1,
                            Append(pods, Pod(pod_id, pod_players, Len(pod_players))))

simple_distribution(ps, target, maxsz) == SimpleLoop(ps, target, maxsz, 0, 1, << >>)

----------------------------------------------------------------------------
(* PodRandomizer._calculate_pod_distribution *)

\* the clamp without its floor of 3
ClampPodSizeNoFloor(pod_size, maxsz) == Min(pod_size, maxsz)

\* the clamp of line 72
ClampPodSize(pod_size, maxsz) == Max(MIN_POD, Min(pod_size, maxsz))

\* the inner loop "for i in range(num_pods)": pods built and players consumed
RECURSIVE BuildPods(_, _, _, _, _, _)
BuildPods(ps, num_pods, maxsz, i, current_index, current_pods) ==
    IF i >= num_pods THEN [pods |-> current_pods, index |-> current_index]
    ELSE
      LET base_size == PyFloorDiv(Len(ps), num_pods)
          remainder == PyMod(Len(ps), num_pods)
          raw_size  == base_size + (IF i < remainder THEN 1 ELSE 0)
          pod_size  == ClampPodSize(raw_size, maxsz)
          pod_players == Slice(ps, current_index, current_index + pod_size)
      IN  IF raw_size = 0
            THEN BuildPods(ps, num_pods, maxsz, i + 1, current_index, current_pods)
            ELSE BuildPods(ps, num_pods, maxsz, i + 1, current_index + pod_size,
                           Append(current_pods, Pod(i + 1, pod_players, Len(pod_players))))

\* the acceptance test taken strictly
AcceptsStrict(ps, built) == built.index > Len(ps)

\* line 84: the candidate is accepted when it consumed every player
Accepts(ps, built) == built.index >= Len(ps)

\* the outer loop "for num_pods in range(min_pods, max_pods + 1)", first success wins
RECURSIVE Search(_, _, _, _)
Search(ps, maxsz, num_pods, max_pods) ==
    IF num_pods > max_pods THEN [found |-> FALSE, k |-> 0, pods |-> << >>]
    ELSE IF num_pods = 0 THEN Search(ps, maxsz, num_pods + 1, max_pods)
    ELSE LET built == BuildPods(ps, num_pods, maxsz, 0, 0, << >>)
         IN  IF Accepts(ps, built)
               THEN [found |-> TRUE, k |-> num_pods, pods |-> built.pods]
               ELSE Search(ps, maxsz, num_pods + 1, max_pods)

\* line 48
MinPods(n, maxsz) == PyFloorDiv(n + maxsz - 1, maxsz)

\* the upper end of the search rounded down
MaxPodsFloor(n, target) == PyFloorDiv(n, target)

\* line 49
MaxPods(n, target) == PyFloorDiv(n + target - 1, target)

\* the whole method: [raised, path, k, pods]
calculate_pod_distribution(ps, target, maxsz) ==
    IF maxsz = 0 \/ target = 0
      THEN [raised |-> TRUE, path |-> "error", k |-> 0, pods |-> << >>]
      ELSE LET s == Search(ps, maxsz, MinPods(Len(ps), maxsz), MaxPods(Len(ps), target))
           IN  IF s.pods # << >>
                 THEN [raised |-> FALSE, path |-> "balanced", k |-> s.k, pods |-> s.pods]
                 ELSE [raised |-> FALSE, path |-> "fallback", k |-> 0,
                       pods |-> simple_distribution(ps, target, maxsz)]

\* line 27
ClampTarget(target, maxsz) == Max(MIN_POD, Min(target, maxsz))

----------------------------------------------------------------------------
(* random.shuffle: any permutation of the list may come out *)

RECURSIVE Orderings(_)
Orderings(S) ==
    IF S = {} THEN { << >> }
    ELSE UNION { { <<x>> \o q : q \in Orderings(S \ {x}) } : x \in S }

Shuffles(ps) == { [i \in 1..Len(ps) |-> ps[q[i]]] : q \in Orderings(1..Len(ps)) }

----------------------------------------------------------------------------
(* PodRandomizer.get_statistics *)

RECURSIVE SumSizes(_)
SumSizes(pods) == IF pods = << >> THEN 0 ELSE pods[1].size + SumSizes(Tail(pods))

RECURSIVE Gcd(_, _)
Gcd(a, b) == IF b = 0 THEN a ELSE Gcd(b, a % b)

\* floor division where true division is meant
FloorDivAvg(a, b) == [num |-> a \div b, den |-> 1]

\* Python's true division a / b of two non-negative ints, b > 0: the value is kept
\* exactly, as the fraction in lowest terms
TrueDiv(a, b) == LET g == Gcd(a, b) IN [num |-> a \div g, den |-> b \div g]

\* Python's min(xs) / max(xs) of a non-empty list: one pass keeping the best so far
RECURSIVE PyMin(_)
PyMin(xs) == IF Len(xs) = 1 THEN xs[1]
             ELSE LET m == PyMin(Tail(xs)) IN IF m < xs[1] THEN m ELSE xs[1]
RECURSIVE PyMax(_)
PyMax(xs) == IF Len(xs) = 1 THEN xs[1]
             ELSE LET m == PyMax(Tail(xs)) IN IF m > xs[1] THEN m ELSE xs[1]

get_statistics(pods) ==
    IF pods = << >>
      THEN [total_pods |-> 0, total_players |-> 0, avg_pod_size |-> [num |-> 0, den |-> 1]]
      ELSE LET total_players == SumSizes(pods)
               pod_sizes == [i \in 1..Len(pods) |-> pods[i].size]
           IN  [total_pods    |-> Len(pods),
                total_players |-> total_players,
                avg_pod_size  |-> TrueDiv(total_players, Len(pods)),
                min_pod_size  |-> PyMin(pod_sizes),
                max_pod_size  |-> PyMax(pod_sizes),
                pod_sizes     |-> pod_sizes]

----------------------------------------------------------------------------
(* PodRandomizer: the object, its history and the references it hands out *)

NoStats == [total_pods |-> -1]

\* "if not players: return []": a fresh empty list, nothing recorded
ReturnEmpty(p, t, m) ==
    /\ shuffled' = << >>
    /\ raised' = FALSE
    /\ path' = "empty"
    /\ heap' = Append(heap, << >>)
    /\ ret' = Len(heap) + 1
    /\ UNCHANGED history

\* the log that keeps only the newest entry
RecordEvicting(log, a) == << a >>

\* line 38: self.history.append(pods)
Record(log, a) == Append(log, a)

\* lines 26-39: clamp, shuffle, distribute, append the pod list to the history and
\* return that same list object
ShuffleAndDistribute(p, t, m) ==
    \E sh \in Shuffles(p) :
      LET r == calculate_pod_distribution(sh, ClampTarget(t, m), m)
      IN  /\ shuffled' = sh
          /\ raised' = r.raised
          /\ path' = r.path
          /\ IF r.raised
               THEN /\ ret' = 0
                    /\ UNCHANGED << heap, history >>
               ELSE /\ heap' = Append(heap, r.pods)
                    /\ ret' = Len(heap) + 1
                    /\ history' = Record(history, Len(heap) + 1)

\* create_pods without the early return for an empty list
create_pods_unguarded(p, t, m) ==
    /\ players' = p
    /\ target_size' = t
    /\ max_size' = m
    /\ stats' = NoStats
    /\ UNCHANGED << got, config, history_file, clock, saved, app_vars >>
    /\ ShuffleAndDistribute(p, t, m)

\* PodRandomizer.create_pods(p, t, m), the whole call
create_pods(p, t, m) ==
    /\ players' = p
    /\ target_size' = t
    /\ max_size' = m
    /\ stats' = NoStats
    /\ UNCHANGED << got, config, history_file, clock, saved, app_vars >>
    /\ IF p = << >> THEN ReturnEmpty(p, t, m) ELSE ShuffleAndDistribute(p, t, m)

\* the pod list a reference denotes
Deref(a) == heap[a]

\* the value of self.history: each assignment with its pods and players
HistoryValue == [i \in 1..Len(history) |-> Deref(history[i])]

\* the value create_pods returned last (meaningful while ret # 0)
Returned == Deref(ret)

\* PodRandomizer.get_history: a new list holding the same assignment references
get_history ==
    /\ got' = history
    /\ pc' = "got"
    /\ UNCHANGED << players, target_size, max_size, shuffled, raised, path, ret,
                    heap, history, stats, config, history_file, clock, saved, app_vars >>

\* PodRandomizer.clear_history
clear_history ==
    /\ history # << >>
    /\ history' = << >>
    /\ pc' = "cleared"
    /\ UNCHANGED << players, target_size, max_size, shuffled, raised, path, ret,
                    heap, got, stats, config, history_file, clock, saved, app_vars >>

\* DataStorage.load_config with no config.json on disk
DefaultConfig ==
    [default_pod_size |-> 4, max_pod_size |-> 8, min_pod_size |-> 3,
     auto_save |-> TRUE, keep_history |-> TRUE, max_history_items |-> 50]

\* an empty dict: what load_json returns for a file that does not exist
EmptyDict == [k \in {} |-> 0]

\* a fresh data directory and a PlayerManager that found no players.json
InitFiles ==
    /\ roster = << >>
    /\ players_file = EmptyDict
    /\ config_file = EmptyDict
    /\ on_disk = {}
    /\ backups = EmptyDict

InitCommon ==
    /\ shuffled = << >>
    /\ raised = FALSE
    /\ path = "none"
    /\ ret = 0
    /\ heap = << >>
    /\ history = << >>
    /\ got = << >>
    /\ stats = NoStats
    /\ config = DefaultConfig
    /\ history_file = << >>
    /\ clock = 0
    /\ saved = << >>
    /\ InitFiles

----------------------------------------------------------------------------
(* SpecDist: one create_pods call on a fresh PodRandomizer, inputs drawn in Init *)

\* n distinct names, and the same list with its last name repeating the first
Roster(n) == [i \in 1..n |-> i]
WithDuplicate(n) == [i \in 1..n |-> IF i = n THEN 1 ELSE i]

InputLists == { Roster(n) : n \in 0..MaxPlayers }
                \cup { WithDuplicate(n) : n \in 2..(MaxPlayers - 2) }

InitDist ==
    /\ pc = "start"
    /\ players \in InputLists
    /\ target_size \in 2..MaxSize
    /\ max_size \in -1..MaxSize
    /\ InitCommon

DistCreatePods ==
    /\ pc = "start"
    /\ pc' = "returned"
    /\ create_pods(players, target_size, max_size)

\* a call of a private method on the participant list as it stands: the result is
\* returned and nothing is recorded
DirectCall(r) ==
    /\ pc = "start"
    /\ shuffled' = players
    /\ raised' = r.raised
    /\ path' = r.path
    /\ IF r.raised
         THEN ret' = 0 /\ UNCHANGED heap
         ELSE heap' = Append(heap, r.pods) /\ ret' = Len(heap) + 1
    /\ UNCHANGED << players, target_size, max_size, history, got, stats, config,
                    history_file, clock, saved, app_vars >>

\* self._calculate_pod_distribution(players, target_size, max_size)
DistCalculate ==
    /\ pc' = "calculated"
    /\ DirectCall(calculate_pod_distribution(players, target_size, max_size))

\* self._simple_distribution(players, target_size, max_size)
DistSimple ==
    /\ pc' = "distributed"
    /\ DirectCall([raised |-> FALSE, path |-> "fallback", k |-> 0,
                   pods |-> simple_distribution(players, target_size, max_size)])

NextDist == DistCreatePods \/ DistCalculate \/ DistSimple

SpecDist == InitDist /\ [][NextDist]_vars

----------------------------------------------------------------------------
(* SpecStats: get_statistics on a pod list drawn in Init *)

\* the pod lists whose pods carry the given size fields (ids 1..n, players to match)
PodListOfSizes(sizes) == [i \in DOMAIN sizes |-> Pod(i, Roster(sizes[i]), sizes[i])]

StatInputs ==
    UNION { { PodListOfSizes(sz) : sz \in [1..n -> 0..MaxStatSize] } : n \in 0..MaxStatPods }

InitStats ==
    /\ pc = "returned"
    /\ players = << >>
    /\ target_size = DefaultConfig.default_pod_size
    /\ max_size = DefaultConfig.max_pod_size
    /\ shuffled = << >>
    /\ raised = FALSE
    /\ path = "none"
    /\ \E pods \in StatInputs : heap = << pods >>
    /\ ret = 1
    /\ history = << >>
    /\ got = << >>
    /\ stats = NoStats
    /\ config = DefaultConfig
    /\ history_file = << >>
    /\ clock = 0
    /\ saved = << >>
    /\ InitFiles

\* stats = self.pod_randomizer.get_statistics(pods)
GetStatistics ==
    /\ pc = "returned"
    /\ ret # 0
    /\ pc' = "stats"
    /\ stats' = get_statistics(Returned)
    /\ UNCHANGED << players, target_size, max_size, shuffled, raised, path, ret,
                    heap, history, got, config, history_file, clock, saved, app_vars >>

NextStats == GetStatistics

SpecStats == InitStats /\ [][NextStats]_vars

----------------------------------------------------------------------------
(* Spec: a PodRandomizer used by a caller that keeps and mutates what it is handed *)

CallLists == { Roster(n) : n \in 0..2 }
CallTargets == { 0, DefaultConfig.default_pod_size }
CallMaxes == { 0, DefaultConfig.max_pod_size }

Init ==
    /\ pc = "idle"
    /\ players = << >>
    /\ target_size = DefaultConfig.default_pod_size
    /\ max_size = DefaultConfig.max_pod_size
    /\ InitCommon

CallCreatePods ==
    /\ Len(heap) < MaxCalls
    /\ pc' = "returned"
    /\ \E p \in CallLists, t \in CallTargets, m \in CallMaxes : create_pods(p, t, m)

\* the pod-list objects the caller can reach through the list get_history gave it
ReachableViaGot == { got[i] : i \in DOMAIN got }

\* Python's xs.pop() on a non-empty list
Pop(xs) == SubSeq(xs, 1, Len(xs) - 1)

CallerFrame ==
    UNCHANGED << players, target_size, max_size, shuffled, raised, path, ret,
                 history, stats, config, history_file, clock, saved, app_vars >>

\* the caller pops an entry off the list get_history returned
MutateGotList ==
    /\ got # << >>
    /\ got' = Pop(got)
    /\ pc' = "mutated"
    /\ UNCHANGED heap
    /\ CallerFrame

\* the caller pops a pod off an assignment found in the list get_history returned
MutateAssignment ==
    /\ \E a \in ReachableViaGot :
          /\ heap[a] # << >>
          /\ heap' = [heap EXCEPT ![a] = Pop(@)]
    /\ pc' = "mutated"
    /\ UNCHANGED got
    /\ CallerFrame

\* the caller pops a name off the players list of a pod, reached through the list
\* get_history returned or through the list create_pods returned
MutatePodPlayers ==
    /\ \E a \in ReachableViaGot \cup ({ret} \ {0}) :
         \E j \in DOMAIN heap[a] :
            /\ heap[a][j].players # << >>
            /\ heap' = [heap EXCEPT ![a][j].players = Pop(@)]
    /\ pc' = "mutated"
    /\ UNCHANGED got
    /\ CallerFrame

CallerMutation == MutateGotList \/ MutateAssignment \/ MutatePodPlayers

Next ==
    \/ CallCreatePods
    \/ get_history
    \/ clear_history
    \/ MutateGotList
    \/ MutateAssignment
    \/ MutatePodPlayers

Spec == Init /\ [][Next]_vars

----------------------------------------------------------------------------
(* SpecTerm: TerminalInterface.save_to_history on top of DataStorage *)

\* Python's xs[start:] for any integer start
SliceFrom(xs, start) ==
    LET s0 == IF start < 0 THEN Max(start + Len(xs), 0) ELSE Min(start, Len(xs))
    IN  SubSeq(xs, s0 + 1, Len(xs))

\* DataStorage.load_history / save_history: the "history" list of history.json
load_history == history_file

\* lines 316-322: append the entry, keep the tail
TrimmedHistory(loaded, entry, max_items) ==
    LET appended == Append(loaded, entry)
    IN  IF Len(appended) > max_items THEN SliceFrom(appended, -max_items) ELSE appended

\* the dict save_to_history builds from the pods
HistoryEntry(stamp, pods) ==
    [timestamp |-> stamp,
     pods |-> [i \in DOMAIN pods |->
                 [id |-> pods[i].id, players |-> pods[i].players, size |-> pods[i].size]]]

save_to_history(pods) ==
    LET entry == HistoryEntry(clock + 1, pods)
    IN  /\ clock' = clock + 1
        /\ saved' = Append(saved, entry)
        /\ history_file' = TrimmedHistory(load_history, entry, config.max_history_items)
        /\ on_disk' = on_disk \cup {"history.json"}

\* the pod lists the interface hands to save_to_history: what create_pods returns for
\* a roster of three and of four players under the default sizing
TermAssignments ==
    { calculate_pod_distribution(Roster(n),
          ClampTarget(DefaultConfig.default_pod_size, DefaultConfig.max_pod_size),
          DefaultConfig.max_pod_size).pods : n \in MIN_POD..(MIN_POD + 1) }

InitTerm ==
    /\ pc = "menu"
    /\ players = << >>
    /\ target_size = DefaultConfig.default_pod_size
    /\ max_size = DefaultConfig.max_pod_size
    /\ shuffled = << >>
    /\ raised = FALSE
    /\ path = "none"
    /\ ret = 0
    /\ heap = << >>
    /\ history = << >>
    /\ got = << >>
    /\ stats = NoStats
    /\ \E k \in 0..MaxHistoryItems : config = [DefaultConfig EXCEPT !.max_history_items = k]
    /\ history_file = << >>
    /\ clock = 0
    /\ saved = << >>
    /\ InitFiles

SaveToHistory ==
    /\ clock < MaxSaves
    /\ \E pods \in TermAssignments : save_to_history(pods)
    /\ UNCHANGED << pc, players, target_size, max_size, shuffled, raised, path, ret,
                    heap, history, got, stats, config,
                    roster, players_file, config_file, backups >>

NextTerm == SaveToHistory

SpecTerm == InitTerm /\ [][NextTerm]_vars

----------------------------------------------------------------------------
(* DataStorage: JSON files as dicts *)

\* dict.get(key, default)
Get(d, key, default) == IF key \in DOMAIN d THEN d[key] ELSE default

\* {**a, **b}: the keys of both, b's value where both have the key
DictMerge(a, b) == b @@ a

\* DataStorage.save_json, line 27: the dict handed in gets a last_saved key before it
\* is written
Stamped(data, stamp) == ("last_saved" :> stamp) @@ data

\* DataStorage.load_json: {} for a file that does not exist
load_json(filename, content) == IF filename \in on_disk THEN content ELSE EmptyDict

\* DataStorage.load_config: the defaults overridden by config.json
load_config == DictMerge(DefaultConfig, load_json("config.json", config_file))

\* DataStorage.save_config(cfg) at time stamp
save_config(cfg, stamp) ==
    /\ config_file' = Stamped(cfg, stamp)
    /\ on_disk' = on_disk \cup {"config.json"}

----------------------------------------------------------------------------
(* SpecSettings: TerminalInterface.settings_menu, started without a config.json *)

\* the integers typed at the size prompts
TypedSizes == 2..9

\* lines 364 and 375: the clamps of the two size prompts
ClampDefaultSize(size) == Max(3, Min(size, 8))
ClampMaxSize(size) == Max(4, Min(size, 8))

\* self.config[key] = value; self.data_storage.save_config(self.config): save_json
\* stamps the dict it is handed, which is self.config itself
SetAndSave(cfg) ==
    /\ clock < MaxSaves
    /\ clock' = clock + 1
    /\ config' = Stamped(cfg, clock + 1)
    /\ save_config(cfg, clock + 1)
    /\ pc' = "settings"
    /\ UNCHANGED << players, target_size, max_size, shuffled, raised, path, ret,
                    heap, history, got, stats, history_file, saved,
                    roster, players_file, backups >>

\* choice "1": default pod size
SetDefaultPodSize ==
    \E size \in TypedSizes :
        SetAndSave([config EXCEPT !.default_pod_size = ClampDefaultSize(size)])

\* choice "2": max pod size
SetMaxPodSize ==
    \E size \in TypedSizes :
        SetAndSave([config EXCEPT !.max_pod_size = ClampMaxSize(size)])

\* choice "3": keep history
ToggleKeepHistory == SetAndSave([config EXCEPT !.keep_history = ~@])

InitSettings ==
    /\ pc = "settings"
    /\ players = << >>
    /\ target_size = DefaultConfig.default_pod_size
    /\ max_size = DefaultConfig.max_pod_size
    /\ InitCommon

NextSettings == SetDefaultPodSize \/ SetMaxPodSize \/ ToggleKeepHistory

SpecSettings == InitSettings /\ [][NextSettings]_vars

----------------------------------------------------------------------------
(* PlayerManager *)

\* str.strip and str.lower on the names of the model
Strip(name) ==
    CASE name = " amy" -> "amy"
      [] name = "  "   -> ""
      [] OTHER         -> name

Lower(name) ==
    CASE name = "Amy" -> "amy"
      [] name = "Bob" -> "bob"
      [] OTHER        -> name

\* PlayerManager.add_player(name) on the list ps: [ok, players]
add_player(ps, name) ==
    LET n == Strip(name)
    IN  IF n = "" THEN [ok |-> FALSE, players |-> ps]
        ELSE IF Lower(n) \in { Lower(ps[i]) : i \in DOMAIN ps }
               THEN [ok |-> FALSE, players |-> ps]
               ELSE [ok |-> TRUE, players |-> Append(ps, n)]

\* list.remove(x): the first occurrence goes
ListRemove(ps, x) ==
    LET i == CHOOSE j \in DOMAIN ps : ps[j] = x /\ \A h \in 1..(j - 1) : ps[h] # x
    IN  SubSeq(ps, 1, i - 1) \o SubSeq(ps, i + 1, Len(ps))

\* PlayerManager.remove_player(name) on the list ps: [ok, players]
remove_player(ps, name) ==
    LET n == Strip(name)
    IN  IF n \in { ps[i] : i \in DOMAIN ps }
          THEN [ok |-> TRUE, players |-> ListRemove(ps, n)]
          ELSE [ok |-> FALSE, players |-> ps]

\* PlayerManager.import_players_from_list(player_list) on the list ps: [added, players]
RECURSIVE import_players_from_list(_, _)
import_players_from_list(ps, player_list) ==
    IF player_list = << >> THEN [added |-> 0, players |-> ps]
    ELSE LET name == Strip(Head(player_list))
             fresh == name # "" /\ Lower(name) \notin { Lower(ps[i]) : i \in DOMAIN ps }
             rest == import_players_from_list(
                         IF fresh THEN Append(ps, name) ELSE ps, Tail(player_list))
         IN  [added |-> rest.added + (IF fresh THEN 1 ELSE 0), players |-> rest.players]

\* PlayerManager.save_players at time stamp
pm_save_players(ps, stamp) ==
    /\ players_file' = [players |-> ps, last_updated |-> stamp]
    /\ on_disk' = on_disk \cup {"players.json"}

\* PlayerManager.load_players, reading the files as they are after the step: the
\* roster is replaced only when players.json exists
pm_load_players ==
    roster' = IF "players.json" \in on_disk'
                THEN Get(players_file', "players", << >>)
                ELSE roster

----------------------------------------------------------------------------
(* DataStorage: players, backups, import *)

\* DataStorage.save_players(ps): the dict written to players.json at time stamp
PlayersDict(ps, stamp) == Stamped([players |-> ps, count |-> Len(ps)], stamp)

\* DataStorage.load_players
load_players == Get(load_json("players.json", players_file), "players", << >>)

\* list(set(xs)): the distinct elements in an order the hash decides
ListOfSet(xs) == Orderings({ xs[i] : i \in DOMAIN xs })

\* create_backup: the files that exist, copied as they are
Snapshot ==
    [files |-> on_disk, players |-> players_file, config |-> config_file,
     history |-> history_file]

\* JSON null
JsonNull == [json_null |-> TRUE]

\* the files offered to import_data: an export of another installation (roster
\* "Bob", default pod size 6, no history), and a file whose "config" is null
ExportOfOther ==
    [players |-> << "Bob" >>,
     config  |-> [DefaultConfig EXCEPT !.default_pod_size = 6],
     history |-> << >>]
NullConfigFile == [players |-> << "Bob" >>, config |-> JsonNull, history |-> << >>]
ImportFiles == { ExportOfOther, NullConfigFile }

----------------------------------------------------------------------------
(* SpecApp: the roster and data handlers of TerminalInterface on a fresh data
   directory *)

\* what is typed at the name prompts, and what Prompt.ask(...).strip() leaves of it
TypedNames == { "amy", "Amy", " amy", "bob", "  " }
EnteredNames == { Strip(t) : t \in TypedNames } \ { "" }

\* the name lists add_multiple_players collects before the blank line
RECURSIVE NameLists(_)
NameLists(n) ==
    IF n = 0 THEN { << >> }
    ELSE NameLists(n - 1)
           \cup { Append(l, x) : l \in { q \in NameLists(n - 1) : Len(q) = n - 1 },
                                 x \in EnteredNames }

\* what the roster and data handlers leave alone in the randomizer
AppFrame ==
    UNCHANGED << players, target_size, max_size, shuffled, raised, path, ret,
                 heap, history, got, stats, saved >>

\* nothing on disk changes and nothing is reloaded
NoChange ==
    UNCHANGED << roster, players_file, config_file, on_disk, backups, config,
                 history_file, clock >>

\* the handler changed the roster and saved it
RosterSaved(ps) ==
    /\ clock' = clock + 1
    /\ roster' = ps
    /\ pm_save_players(ps, clock + 1)
    /\ UNCHANGED << config_file, backups, config, history_file >>

\* TerminalInterface.add_single_player
AddSinglePlayer ==
    /\ clock < MaxSaves
    /\ AppFrame
    /\ \E typed \in TypedNames :
         LET name == Strip(typed)
             r == add_player(roster, name)
         IN  IF name # "" /\ r.ok
               THEN pc' = "added" /\ RosterSaved(r.players)
               ELSE pc' = "add_failed" /\ NoChange

\* TerminalInterface.add_multiple_players with at least one name entered
RECURSIVE AddEach(_, _)
AddEach(ps, names) ==
    IF names = << >> THEN [added |-> 0, players |-> ps]
    ELSE LET r == add_player(ps, Head(names))
             rest == AddEach(r.players, Tail(names))
         IN  [added |-> rest.added + (IF r.ok THEN 1 ELSE 0), players |-> rest.players]

AddMultiplePlayers ==
    /\ clock < MaxSaves
    /\ AppFrame
    /\ \E names \in NameLists(MaxTyped) \ { << >> } :
         LET r == AddEach(roster, names)
         IN  IF r.added > 0
               THEN pc' = "added" /\ RosterSaved(r.players)
               ELSE pc' = "add_failed" /\ NoChange

\* TerminalInterface.remove_player
RemovePlayer ==
    /\ clock < MaxSaves
    /\ roster # << >>
    /\ AppFrame
    /\ \E typed \in TypedNames :
         LET r == remove_player(roster, Strip(typed))
         IN  IF r.ok
               THEN pc' = "removed" /\ RosterSaved(r.players)
               ELSE pc' = "remove_failed" /\ NoChange

\* TerminalInterface.clear_all_players, confirmed
ClearAllPlayers ==
    /\ clock < MaxSaves
    /\ AppFrame
    /\ pc' = "cleared"
    /\ RosterSaved(<< >>)

\* data_menu choice "1": DataStorage.create_backup into a folder named by the time
CreateBackup ==
    /\ clock < MaxSaves
    /\ Cardinality(DOMAIN backups) < MaxBackups
    /\ AppFrame
    /\ pc' = "backed_up"
    /\ clock' = clock + 1
    /\ backups' = ((clock + 1) :> Snapshot) @@ backups
    /\ UNCHANGED << roster, players_file, config_file, on_disk, config, history_file >>

\* data_menu choice "2": DataStorage.restore_backup of a listed backup, then the
\* reload of roster and config
RestoreBackup ==
    /\ AppFrame
    /\ pc' = "restored"
    /\ \E b \in DOMAIN backups :
         LET snap == backups[b]
         IN  /\ players_file' = IF "players.json" \in snap.files
                                  THEN snap.players ELSE players_file
             /\ config_file' = IF "config.json" \in snap.files
                                 THEN snap.config ELSE config_file
             /\ history_file' = IF "history.json" \in snap.files
                                  THEN snap.history ELSE history_file
             /\ on_disk' = on_disk \cup snap.files
    /\ pm_load_players
    /\ config' = load_config'
    /\ UNCHANGED << backups, clock >>

\* import_data(path, merge=True): players first, then the config; a config that is
\* no mapping raises after the players were saved, and the handler reports failure
\* without reloading
ImportMerge(file) ==
    \E all_players \in ListOfSet(load_players \o file.players) :
      /\ players_file' = PlayersDict(all_players, clock + 1)
      /\ UNCHANGED history_file
      /\ IF file.config # JsonNull
           THEN /\ config_file' = Stamped(DictMerge(load_config, file.config), clock + 1)
                /\ on_disk' = on_disk \cup {"players.json", "config.json"}
                /\ pm_load_players
                /\ config' = load_config'
                /\ pc' = "imported"
           ELSE /\ on_disk' = on_disk \cup {"players.json"}
                /\ UNCHANGED << config_file, roster, config >>
                /\ pc' = "import_failed"

\* import_data(path, merge=False): the three saves; save_json swallows the error of
\* stamping a config that is no mapping and leaves config.json as it was
ImportReplace(file) ==
    /\ players_file' = PlayersDict(file.players, clock + 1)
    /\ history_file' = file.history
    /\ IF file.config # JsonNull
         THEN /\ config_file' = Stamped(file.config, clock + 1)
              /\ on_disk' = {"players.json", "config.json", "history.json"}
         ELSE /\ UNCHANGED config_file
              /\ on_disk' = on_disk \cup {"players.json", "history.json"}
    /\ pm_load_players
    /\ config' = load_config'
    /\ pc' = "imported"

\* data_menu choice "4"
ImportData ==
    /\ clock < MaxSaves
    /\ AppFrame
    /\ clock' = clock + 1
    /\ UNCHANGED backups
    /\ \E file \in ImportFiles, merge \in BOOLEAN :
         IF merge THEN ImportMerge(file) ELSE ImportReplace(file)

InitApp ==
    /\ pc = "menu"
    /\ players = << >>
    /\ target_size = DefaultConfig.default_pod_size
    /\ max_size = DefaultConfig.max_pod_size
    /\ InitCommon

\* the handlers that change the roster, and the two data handlers that reload it
RosterHandler == AddSinglePlayer \/ AddMultiplePlayers \/ RemovePlayer \/ ClearAllPlayers
DataHandler == RestoreBackup \/ ImportData

NextApp ==
    \/ AddSinglePlayer
    \/ AddMultiplePlayers
    \/ RemovePlayer
    \/ ClearAllPlayers
    \/ CreateBackup
    \/ RestoreBackup
    \/ ImportData

SpecApp == InitApp /\ [][NextApp]_vars

\* PlayerManager.import_players_from_list called on the roster with a list of raw
\* names; no handler of the interface calls it, so nothing is saved
ImportPlayersFromList ==
    /\ AppFrame
    /\ pc' = "listed"
    /\ \E raw \in [1..MaxTyped -> TypedNames] :
         roster' = import_players_from_list(roster, raw).players
    /\ UNCHANGED << players_file, config_file, on_disk, backups, config,
                    history_file, clock >>

NextRoster == NextApp \/ ImportPlayersFromList

\* SpecRoster: the handlers of SpecApp and direct use of the PlayerManager
SpecRoster == InitApp /\ [][NextRoster]_vars

----------------------------------------------------------------------------
(* Vocabulary of the properties *)

\* the multiset of the elements of a sequence
BagOfSeq(s) ==
    [x \in { s[i] : i \in DOMAIN s } |-> Cardinality({ i \in DOMAIN s : s[i] = x })]

\* the players of all pods, pod 1 first
RECURSIVE AllPlayers(_)
AllPlayers(pods) ==
    IF pods = << >> THEN << >> ELSE pods[1].players \o AllPlayers(Tail(pods))

\* a create_pods call has returned (or raised)
Called == pc = "returned"

\* the sizing inputs the contract calls valid
ValidSizing == MIN_POD <= target_size /\ target_size <= max_size

\* the call returned a pod list for a non-empty participant list under valid sizing
ValidCallReturned == Called /\ players # << >> /\ ValidSizing /\ ~raised

PodSizes(pods) == { pods[i].size : i \in DOMAIN pods }
Undersized(pods) == { i \in DOMAIN pods : pods[i].size < MIN_POD }

\* n participants can be split into parts that all lie in [3, maxsz]
Splittable(n, maxsz) == \E j \in 1..n : MIN_POD * j <= n /\ n <= maxsz * j

\* C1: for a non-empty participant list and 3 <= target_size <= max_size, create_pods
\* returns pods whose players, taken together as a multiset, are exactly the input
\* multiset, on the balanced path and on the fallback path alike.
C1_Conservation ==
    (Called /\ players # << >> /\ ValidSizing) =>
        /\ ~raised
        /\ path \in {"balanced", "fallback"}
        /\ BagOfSeq(AllPlayers(Returned)) = BagOfSeq(players)

\* a valid call on a list with a repeated name that came back as several pods
C1_Witness ==
    /\ ValidCallReturned
    /\ Cardinality({ players[i] : i \in DOMAIN players }) < Len(players)
    /\ Len(Returned) > 1
    /\ BagOfSeq(AllPlayers(Returned)) = BagOfSeq(players)

\* C2: whenever the balanced search accepts a candidate (the fallback is not used),
\* every returned pod has 3 <= size <= max_size.
C2_PrimaryBounds ==
    (ValidCallReturned /\ path = "balanced") =>
        \A i \in DOMAIN Returned :
            MIN_POD <= Returned[i].size /\ Returned[i].size <= max_size

\* C3: under valid sizing no returned pod exceeds max_size, at most one returned pod
\* has fewer than 3 players, and such a pod appears only when the participant count
\* cannot be split into parts that all lie in [3, max_size].
C3_PodSizeInvariant ==
    ValidCallReturned =>
        /\ \A i \in DOMAIN Returned : Returned[i].size <= max_size
        /\ Cardinality(Undersized(Returned)) <= 1
        /\ (Undersized(Returned) # {}) => ~Splittable(Len(players), max_size)

\* a valid call that came back with several pods, one of them undersized
C3_Witness ==
    /\ ValidCallReturned
    /\ Len(Returned) > 1
    /\ Cardinality(Undersized(Returned)) = 1
    /\ ~Splittable(Len(players), max_size)

\* the sizes of the even split of n participants into k pods
EvenSplit(n, k) == [i \in 1..k |-> (n \div k) + (IF i <= n % k THEN 1 ELSE 0)]

\* the pod counts whose even split keeps every pod within [3, maxsz]
FeasibleCounts(n, maxsz) ==
    { k \in 1..n : \A i \in 1..k :
          MIN_POD <= EvenSplit(n, k)[i] /\ EvenSplit(n, k)[i] <= maxsz }

Abs(x) == IF x < 0 THEN -x ELSE x

\* the largest distance of a size from the target
Deviation(sizes, target) ==
    CHOOSE d \in { Abs(sizes[i] - target) : i \in DOMAIN sizes } :
        \A i \in DOMAIN sizes : Abs(sizes[i] - target) <= d

\* C4: under valid sizing create_pods returns, among the pod counts whose even split
\* keeps every pod within [3, max_size], the split whose sizes deviate least from
\* target_size; in particular, when the participant count is a multiple of
\* target_size, every returned pod has exactly target_size players.
C4_ClosestToTarget ==
    ValidCallReturned =>
        LET n == Len(players)
            sizes == [i \in DOMAIN Returned |-> Returned[i].size]
        IN  /\ \A k \in FeasibleCounts(n, max_size) :
                   Deviation(sizes, target_size) <= Deviation(EvenSplit(n, k), target_size)
            /\ (n % target_size = 0) => \A i \in DOMAIN Returned : sizes[i] = target_size

\* C6: with exactly 3 participants and target_size >= 3, max_size >= 3, create_pods
\* returns exactly one pod, of size 3, holding all three participants.
C6_DegenerateMinimum ==
    (Called /\ Len(players) = MIN_POD /\ target_size >= MIN_POD /\ max_size >= MIN_POD) =>
        /\ ~raised
        /\ Len(Returned) = 1
        /\ Returned[1].size = MIN_POD
        /\ Len(Returned[1].players) = MIN_POD
        /\ BagOfSeq(Returned[1].players) = BagOfSeq(players)

\* three participants, a target above the maximum, one pod of three came back
C6_Witness ==
    /\ Called /\ ~raised
    /\ Len(players) = MIN_POD
    /\ max_size >= MIN_POD /\ target_size > max_size
    /\ Len(Returned) = 1 /\ Returned[1].size = MIN_POD

\* C7: create_pods raises no error for any participant list and any integer
\* target_size and max_size; a pod list is always returned.
C7_NoError == Called => (~raised /\ ret # 0)

----------------------------------------------------------------------------
(* Properties of the balanced search and of the fallback (SpecDist) *)

\* _calculate_pod_distribution ran, through create_pods or called directly
Searched == pc \in {"returned", "calculated"} /\ players # << >> /\ ~raised

\* the list the search was handed and the target it was handed
SearchList == IF pc = "returned" THEN shuffled ELSE players
SearchTarget ==
    IF pc = "returned" THEN ClampTarget(target_size, max_size) ELSE target_size

\* ceil(a / b) for a >= 0 and b # 0: the least integer q with q >= a / b
CeilDiv(a, b) ==
    IF b > 0
      THEN CHOOSE q \in 0..a : q * b >= a /\ (q = 0 \/ (q - 1) * b < a)
      ELSE CHOOSE q \in (-a)..0 : q * b <= a /\ (q - 1) * b > a

\* the pods built for k hold every participant
Covers(ps, k, maxsz) ==
    Len(AllPlayers(BuildPods(ps, k, maxsz, 0, 0, << >>).pods)) = Len(ps)

\* the candidate counts of the search whose pods hold every participant
CoveringCounts(ps, target, maxsz) ==
    { k \in CeilDiv(Len(ps), maxsz)..CeilDiv(Len(ps), target) :
          k >= 1 /\ Covers(ps, k, maxsz) }

\* C13: the pod count of the result of _calculate_pod_distribution is the smallest k
\* in [ceil(n / max_size), ceil(n / target_size)] whose built pods account for all n
\* participants; the fallback is used only when no k in that range does.
C13_FirstSuccess ==
    Searched =>
        LET C == CoveringCounts(SearchList, SearchTarget, max_size)
        IN  /\ (C # {}) =>
                  /\ path = "balanced"
                  /\ Len(Returned) \in C
                  /\ \A k \in C : Len(Returned) <= k
            /\ (C = {}) => path = "fallback"

\* a search under valid sizing that settled on the first count of its range, two
\* pods or more
C13_Witness ==
    /\ Searched /\ ValidSizing
    /\ path = "balanced"
    /\ Len(Returned) > 1
    /\ Len(Returned) = CeilDiv(Len(players), max_size)

\* C14: when the balanced search accepts pod count k for n participants, with
\* base = n div k and remainder = n mod k, the first remainder pods hold base + 1
\* players and the others base, so sizes differ by at most one and never increase.
C14_BalancedSizes ==
    (Searched /\ path = "balanced") =>
        LET n == Len(players)
            k == Len(Returned)
        IN  /\ \A i \in 1..k : Returned[i].size = EvenSplit(n, k)[i]
            /\ \A i, j \in 1..k : Abs(Returned[i].size - Returned[j].size) <= 1
            /\ \A i \in 1..(k - 1) : Returned[i].size >= Returned[i + 1].size

\* where pod i starts in the concatenation of the pods' players
Offset(pods, i) == Len(AllPlayers(SubSeq(pods, 1, i - 1)))

\* C15: the returned pods' players, concatenated in pod order, are exactly the
\* shuffled permutation of the input: every pod is a contiguous slice of it and no
\* reordering happens after the shuffle.
C15_OrderPreserved ==
    (Called /\ ~raised) =>
        /\ BagOfSeq(shuffled) = BagOfSeq(players)
        /\ Len(shuffled) = Len(players)
        /\ AllPlayers(Returned) = shuffled
        /\ \A i \in DOMAIN Returned :
              Returned[i].players =
                  SubSeq(shuffled, Offset(Returned, i) + 1,
                         Offset(Returned, i) + Len(Returned[i].players))

\* a shuffle that changed the order and came back as several pods
C15_Witness ==
    /\ Called /\ ~raised
    /\ shuffled # players
    /\ Len(Returned) > 1
    /\ AllPlayers(Returned) = shuffled

\* C16: in any returned pod list, balanced or fallback, the pod at position i
\* (counting from 1) has id = i.
C16_PodIds ==
    (pc \in {"returned", "calculated", "distributed"} /\ ~raised) =>
        \A i \in DOMAIN Returned : Returned[i].id = i

\* a create_pods call that went to the fallback and came back with several pods
C16_Witness ==
    /\ Called /\ ~raised
    /\ path = "fallback"
    /\ Len(Returned) > 1
    /\ Returned[Len(Returned)].id = Len(Returned)

\* the last pod of a fallback result holds more than the target: a tail was merged
TailMerged ==
    /\ pc = "distributed"
    /\ Returned # << >>
    /\ Len(Returned[Len(Returned)].players) > target_size

\* C17: every Pod returned by create_pods or by _simple_distribution has
\* size = len(players) and at least one player, also after the fallback merged a
\* tail into the last pod.
C17_DerivedSize ==
    (pc \in {"returned", "distributed"} /\ ~raised) =>
        \A i \in DOMAIN Returned :
            /\ Returned[i].size = Len(Returned[i].players)
            /\ Len(Returned[i].players) >= 1

\* a fallback result whose last pod took the tail and counts it in its size
C17_Witness ==
    /\ TailMerged
    /\ Returned[Len(Returned)].size = Len(Returned[Len(Returned)].players)

\* C18: _simple_distribution called with 3 <= target_size <= max_size returns pods
\* whose players taken together equal the input multiset, in which every pod before
\* the last has exactly target_size players and no pod exceeds max_size.
C18_FallbackCoverage ==
    (pc = "distributed" /\ ValidSizing) =>
        /\ BagOfSeq(AllPlayers(Returned)) = BagOfSeq(players)
        /\ \A i \in 1..(Len(Returned) - 1) : Returned[i].size = target_size
        /\ \A i \in DOMAIN Returned : Returned[i].size <= max_size

\* a fallback under valid sizing whose tail did not fit and became a pod of its own
C18_Witness ==
    /\ pc = "distributed" /\ ValidSizing
    /\ Len(Returned) > 1
    /\ Returned[Len(Returned)].size < MIN_POD
    /\ Returned[Len(Returned) - 1].size = target_size

\* chunk j of the list cut into pieces of t
Chunk(ps, t, j) == SubSeq(ps, (j - 1) * t + 1, j * t)

\* C19: when the fallback reaches a tail of r < 3 players with at least one pod
\* built, the tail goes into the last pod if and only if that pod's size + r is at
\* most max_size; otherwise the tail becomes one new pod of size r. No error is
\* raised either way.
C19_MergeOrEmit ==
    (pc = "distributed") =>
        LET n == Len(players)
            t == target_size
        IN  \A j \in 1..n :
              LET r == n - j * t
                  tail == SubSeq(players, j * t + 1, n)
              IN  (1 <= r /\ r < MIN_POD) =>
                    /\ ~raised
                    /\ \A i \in 1..(j - 1) : Returned[i].players = Chunk(players, t, i)
                    /\ IF t + r <= max_size
                         THEN /\ Len(Returned) = j
                              /\ Returned[j].players = Chunk(players, t, j) \o tail
                              /\ Returned[j].size = t + r
                         ELSE /\ Len(Returned) = j + 1
                              /\ Returned[j].players = Chunk(players, t, j)
                              /\ Returned[j + 1].players = tail
                              /\ Returned[j + 1].size = r

\* a fallback with two pods built whose tail of one or two players was merged
C19_Witness ==
    /\ TailMerged
    /\ Len(Returned) > 1
    /\ Len(players) - Len(Returned) * target_size \in 1..(MIN_POD - 1)
    /\ target_size + (Len(players) - Len(Returned) * target_size) <= max_size

\* the sizes create_pods would return for the same shuffle under target t
SizesUnderTarget(t) ==
    LET r == calculate_pod_distribution(shuffled, ClampTarget(t, max_size), max_size)
    IN  [i \in DOMAIN r.pods |-> r.pods[i].size]

\* C21: for every non-empty participant list and 3 <= target_size <= max_size the
\* search accepts its first candidate k = ceil(n / max_size): create_pods never calls
\* _simple_distribution, returns exactly ceil(n / max_size) pods, and the returned
\* pod sizes do not depend on target_size.
C21_FallbackUnreachable ==
    (Called /\ players # << >> /\ ValidSizing) =>
        /\ ~raised
        /\ path = "balanced"
        /\ Len(Returned) = CeilDiv(Len(players), max_size)
        /\ \A t \in MIN_POD..max_size :
              SizesUnderTarget(t) = [i \in DOMAIN Returned |-> Returned[i].size]

\* a valid call whose target alone would ask for more pods than were returned
C21_Witness ==
    /\ ValidCallReturned
    /\ path = "balanced"
    /\ target_size < max_size
    /\ Len(Returned) = CeilDiv(Len(players), max_size)
    /\ CeilDiv(Len(players), target_size) > Len(Returned)

----------------------------------------------------------------------------
(* Properties of the PodRandomizer object (Spec) *)

\* a create_pods call with an empty participant list
EmptyCall == \E t \in CallTargets, m \in CallMaxes : create_pods(<< >>, t, m)

\* C5: create_pods called with an empty participant list returns an empty pod list
\* for any target_size and max_size, raises no error and leaves the in-memory
\* history unchanged.
C5_Emptiness ==
    [][EmptyCall =>
          /\ ~raised'
          /\ ret' # 0
          /\ Returned' = << >>
          /\ history' = history
          /\ HistoryValue' = HistoryValue]_vars

\* an empty call made with max_size 0 on a randomizer that already has history
C5_Witness ==
    /\ pc = "returned"
    /\ players = << >>
    /\ max_size = 0
    /\ history # << >>
    /\ ~raised
    /\ Returned = << >>

\* C9: no mutation the caller makes through a value it was handed (the list from
\* get_history, an assignment inside it, a Pod's players list reached through it or
\* through the list create_pods returned) changes what get_history returns later.
C9_HistoryIsolation == [][CallerMutation => HistoryValue' = HistoryValue]_vars

\* the pod lists the list handed out by get_history holds
GotValue == [i \in 1..Len(got) |-> Deref(got[i])]

\* C22: over any sequence of create_pods and clear_history calls on one
\* PodRandomizer, a create_pods call with a non-empty participant list appends the
\* pod list it returns to the end of the log and leaves the earlier entries as they
\* were, a call that returns the empty list (or raises) leaves the log alone,
\* clear_history leaves the log empty, and get_history returns the log as it stands,
\* in call order: nothing is evicted or reordered.
C22_HistoryLog ==
    [][/\ CallCreatePods =>
            IF players' # << >> /\ ~raised'
              THEN /\ history' = history \o << ret' >>
                   /\ HistoryValue' = HistoryValue \o << Returned' >>
              ELSE /\ history' = history
                   /\ HistoryValue' = HistoryValue
       /\ clear_history => (history' = << >> /\ HistoryValue' = << >>)
       /\ get_history =>
            /\ got' = history
            /\ GotValue' = HistoryValue
            /\ history' = history]_vars

\* two non-empty calls with a clear_history between them, then get_history: the list
\* handed out holds the second call's pods only
C22_Witness ==
    /\ pc = "got"
    /\ got = << 2 >>
    /\ history = << 2 >>
    /\ heap[1] # << >>
    /\ heap[2] # << >>

----------------------------------------------------------------------------
(* Properties of get_statistics (SpecStats) *)

\* the sum of the size fields, by index
SizeSum(pods) ==
    LET S[i \in 0..Len(pods)] == IF i = 0 THEN 0 ELSE S[i - 1] + pods[i].size
    IN  S[Len(pods)]

\* C8: get_statistics returns total_players = the sum of the pod sizes, total_pods =
\* the number of pods, avg_pod_size = total_players / total_pods (0 when there are no
\* pods) and, for a non-empty list, min_pod_size and max_pod_size = the smallest and
\* the largest pod size.
C8_Statistics ==
    (pc = "stats") =>
        LET pods == Returned
            n == Len(pods)
        IN  /\ stats.total_pods = n
            /\ stats.total_players = SizeSum(pods)
            /\ stats.avg_pod_size.den > 0
            /\ stats.avg_pod_size.num * n = SizeSum(pods) * stats.avg_pod_size.den
            /\ (n = 0) => stats.avg_pod_size.num = 0
            /\ (n > 0) =>
                  /\ stats.min_pod_size \in PodSizes(pods)
                  /\ stats.max_pod_size \in PodSizes(pods)
                  /\ \A i \in DOMAIN pods :
                        stats.min_pod_size <= pods[i].size /\ pods[i].size <= stats.max_pod_size

\* statistics of several pods of different sizes whose average is no integer
C8_Witness ==
    /\ pc = "stats"
    /\ Len(Returned) > 1
    /\ stats.min_pod_size < stats.max_pod_size
    /\ stats.avg_pod_size.den > 1

----------------------------------------------------------------------------
(* Properties of the stored history (SpecTerm) *)

\* the last k elements of a sequence
LastN(xs, k) == SubSeq(xs, Len(xs) - k + 1, Len(xs))

\* C10: starting from an empty stored history, for any non-negative
\* max_history_items, after c save_to_history calls the stored history holds exactly
\* the most recent min(c, max_history_items) entries, in the order they were saved.
C10_FifoEviction ==
    history_file = LastN(saved, Min(Len(saved), config.max_history_items))

----------------------------------------------------------------------------
(* Properties of the settings menu (SpecSettings) *)

\* C12: in every state reachable from the default configuration through settings-menu
\* changes (default pod size, max pod size, keep-history toggle) the held
\* configuration satisfies 3 <= default_pod_size <= max_pod_size.
C12_SizingConfig ==
    (pc = "settings") =>
        /\ MIN_POD <= config.default_pod_size
        /\ config.default_pod_size <= config.max_pod_size

----------------------------------------------------------------------------
(* Properties of the roster and of its file (SpecRoster, SpecApp) *)

\* C11: in every state reachable through the roster operations (add_player,
\* import_players_from_list, remove_player, clear_players, and load_players after
\* import_data with merge or replace or after restore_backup) no two names of the
\* in-memory roster are equal ignoring case, and every name is non-empty and has no
\* leading or trailing whitespace.
C11_RosterUnique ==
    /\ \A i, j \in DOMAIN roster : i # j => Lower(roster[i]) # Lower(roster[j])
    /\ \A i \in DOMAIN roster : roster[i] # "" /\ Strip(roster[i]) = roster[i]

\* a roster or data handler of the terminal interface has just completed
HandlerCompleted ==
    pc \in { "added", "add_failed", "removed", "remove_failed", "cleared",
             "restored", "imported", "import_failed" }

\* C20: after each roster-mutating terminal operation completes (add single player,
\* add multiple players, remove player, clear all players) and after each
\* restore-backup or import-data operation, the player list stored in players.json
\* equals the in-memory roster of the PlayerManager.
C20_RosterPersisted == HandlerCompleted => load_players = roster

\* C23: create_backup, then any sequence of saves to players.json, config.json and
\* history.json, then restore_backup of that backup returns each of the three files
\* to the state it had when the backup was created, including a file that did not
\* exist at backup time.
C23_BackupRoundTrip ==
    (pc = "restored") => \E b \in DOMAIN backups : Snapshot = backups[b]

====
